---- MODULE Spec2Model ----
(***************************************************************************)
(* Model of the static affiliate-site server (src/server.js) and of the    *)
(* promotional popup of the front-end scripts (src/script.js,              *)
(* src/public/script.js).                                                  *)
(*                                                                         *)
(* A string is a sequence of tokens.  A token is one character ("/", ".",  *)
(* "?", "#", "a"), one percent escape ("%2e" is an encoded '.', "%" is an  *)
(* escape that cannot be decoded) or a run of letters that contains        *)
(* neither '/' nor '.' ("posts", "html", "css", ...).                      *)
(***************************************************************************)
EXTENDS Integers, Sequences, FiniteSets, TLC

VARIABLES
    clients,     \* which population of clients sends requests (fixed by Init)
    fs,          \* the filesystem: canonical path -> "file" | "dir" | "none"
    req,         \* per connection: the request being handled and its response
    crash,       \* the uncaught exception that ended the process, or "none"
    popupShown,  \* sessionStorage item 'popupShown' is set
    page,        \* the document currently loaded in the browser tab
    loads,       \* number of page loads in this session
    shows        \* number of times the popup was given the 'show' class

vars == <<clients, fs, req, crash, popupShown, page, loads, shows>>

browserVars == <<popupShown, page, loads, shows>>

----------------------------------------------------------------------------
(* Bounds *)

MaxLen == 6        \* longest request URL of the path specification, in tokens
MaxQueryLen == 5   \* longest request URL of the query specification
MaxMimeLen == 4    \* longest request URL of the content-type specification
MaxInFlight == 2   \* connections of the concurrent specification
MaxLoads == 3      \* page loads in one browser session

----------------------------------------------------------------------------
(* Strings *)

PathAlphabet == {"/", ".", "a", "posts", "html", "%2e"}

QueryAlphabet == {"/", ".", "a", "html", "?", "#", "%", "%2e"}

MimeAlphabet ==
    {"/", ".", "a", "html", "HTML", "css", "js", "png", "PNG", "jpg", "jpeg",
     "svg", "json", "pdf"}

StringsUpTo(alphabet, n) == UNION {[1..k -> alphabet] : k \in 0..n}

\* the request URLs each population of clients may send
Urls(population) ==
    CASE population = "path" -> StringsUpTo(PathAlphabet, MaxLen)
      [] population = "query" -> StringsUpTo(QueryAlphabet, MaxQueryLen)
      [] population = "mime" -> StringsUpTo(MimeAlphabet, MaxMimeLen)
      [] population = "race" ->
            {<<"/">>, <<"/", "a">>, <<"/", "posts", "/", "a">>,
             <<"/", "a", ".", "html">>, <<"/", "%">>}
      [] OTHER -> {}

StartsWith(s, pre) ==
    /\ Len(s) >= Len(pre)
    /\ SubSeq(s, 1, Len(pre)) = pre

EndsWith(s, suf) ==
    /\ Len(s) >= Len(suf)
    /\ SubSeq(s, Len(s) - Len(suf) + 1, Len(s)) = suf

\* s.split(sep): the pieces of s between occurrences of the token sep
RECURSIVE SplitOn(_, _)
SplitOn(s, sep) ==
    IF \A i \in 1..Len(s) : s[i] # sep THEN <<s>>
    ELSE LET i == CHOOSE k \in 1..Len(s) :
                      s[k] = sep /\ \A j \in 1..(k - 1) : s[j] # sep
         IN <<SubSeq(s, 1, i - 1)>> \o SplitOn(SubSeq(s, i + 1, Len(s)), sep)

\* the query string is kept
StripQueryNone(u) == u

\* req.url.split('?')[0]
StripQuery(u) == SplitOn(u, "?")[1]

\* decodeURI throws URIError on an escape that is not valid UTF-8
CanDecode(s) == \A i \in 1..Len(s) : s[i] # "%"

\* decodeURI on a decodable string: every escape becomes its character
DecodeURI(s) == [i \in 1..Len(s) |-> IF s[i] = "%2e" THEN "." ELSE s[i]]

LowerOf(t) ==
    CASE t = "HTML" -> "html"
      [] t = "PNG" -> "png"
      [] OTHER -> t

\* the case of the extension is kept
ToLowerCaseNone(s) == s

\* String.prototype.toLowerCase
ToLowerCase(s) == [i \in 1..Len(s) |-> LowerOf(s[i])]

----------------------------------------------------------------------------
(* Paths (the posix implementation of Node's path module) *)

ROOT == <<"/", "w">>

\* normalizeString: resolve '.' and '..' segments of an absolute path
RECURSIVE NormalizeSegs(_, _)
NormalizeSegs(segs, res) ==
    IF segs = <<>> THEN res
    ELSE LET seg == Head(segs)
             rest == Tail(segs)
         IN IF seg = <<>> \/ seg = <<".">> THEN NormalizeSegs(rest, res)
            ELSE IF seg = <<".", ".">>
                 THEN NormalizeSegs(rest,
                          IF res = <<>> THEN res ELSE SubSeq(res, 1, Len(res) - 1))
                 ELSE NormalizeSegs(rest, Append(res, seg))

RECURSIVE JoinSegs(_)
JoinSegs(segs) ==
    IF segs = <<>> THEN <<>>
    ELSE IF Len(segs) = 1 THEN segs[1]
    ELSE segs[1] \o <<"/">> \o JoinSegs(Tail(segs))

\* path.normalize of an absolute path
Normalize(p) ==
    LET segs == NormalizeSegs(SplitOn(p, "/"), <<>>)
        trailing == p[Len(p)] = "/"
        body == JoinSegs(segs)
    IN <<"/">> \o body \o (IF body # <<>> /\ trailing THEN <<"/">> ELSE <<>>)

\* path.join(ROOT, rel): zero-length arguments are skipped
PathJoin(root, rel) ==
    IF rel = <<>> THEN Normalize(root) ELSE Normalize(root \o <<"/">> \o rel)

\* the scanning loop of path.extname, from the last character to the first;
\* 0 stands for the loop's -1 ("not seen yet")
RECURSIVE ExtScan(_, _, _)
ExtScan(p, i, st) ==
    IF i = 0 THEN st
    ELSE IF p[i] = "/"
         THEN IF ~st.matchedSlash
              THEN [st EXCEPT !.startPart = i + 1]
              ELSE ExtScan(p, i - 1, st)
         ELSE LET s1 == IF st.end = 0
                        THEN [st EXCEPT !.matchedSlash = FALSE, !.end = i]
                        ELSE st
                  s2 == IF p[i] = "."
                        THEN IF s1.startDot = 0
                             THEN [s1 EXCEPT !.startDot = i]
                             ELSE IF s1.preDotState # 1
                                  THEN [s1 EXCEPT !.preDotState = 1]
                                  ELSE s1
                        ELSE IF s1.startDot # 0
                             THEN [s1 EXCEPT !.preDotState = -1]
                             ELSE s1
              IN ExtScan(p, i - 1, s2)

\* a leading dot of the last segment starts an extension too
ExtNameLastDot(p) ==
    LET st == ExtScan(p, Len(p),
                  [startDot |-> 0, startPart |-> 1, end |-> 0,
                   matchedSlash |-> TRUE, preDotState |-> 0])
    IN IF st.startDot = 0 \/ st.end = 0 THEN <<>>
       ELSE SubSeq(p, st.startDot, st.end)

\* path.extname
ExtName(p) ==
    LET st == ExtScan(p, Len(p),
                  [startDot |-> 0, startPart |-> 1, end |-> 0,
                   matchedSlash |-> TRUE, preDotState |-> 0])
    IN IF \/ st.startDot = 0
          \/ st.end = 0
          \/ st.preDotState = 0
          \/ (/\ st.preDotState = 1
              /\ st.startDot = st.end
              /\ st.startDot = st.startPart + 1)
       THEN <<>>
       ELSE SubSeq(p, st.startDot, st.end)

----------------------------------------------------------------------------
(* The filesystem the server runs on *)

PostsDir == ROOT \o <<"/", "posts">>

Dirs == {<<"/">>, ROOT, PostsDir}

\* top-level pages and assets a.html, a.css, ... of the site
AssetExts ==
    {"html", "HTML", "css", "js", "png", "PNG", "jpg", "jpeg", "svg", "json",
     "pdf"}

SiteFiles ==
    {ROOT \o <<"/", "a", ".", e>> : e \in AssetExts} \cup
    {ROOT \o <<"/", "index", ".", "html">>,
     ROOT \o <<"/", "a">>,
     PostsDir \o <<"/", "a", ".", "html">>,
     PostsDir \o <<"/", "a", ".", "a">>,
     PostsDir \o <<"/", ".", "a", ".", "html">>}

\* regular files that exist outside the site root
OutsideFiles ==
    {<<"/", "a">>,
     <<"/", "w", ".", "html">>,
     <<"/", ".", "html">>}

FsLayout ==
    [p \in Dirs \cup SiteFiles \cup OutsideFiles |->
        IF p \in Dirs THEN "dir" ELSE "file"]

\* files another process removes, replaces or recreates while the server runs
Volatile ==
    {ROOT \o <<"/", "a">>,
     ROOT \o <<"/", "index", ".", "html">>}

HasTrailingSlash(p) == Len(p) > 1 /\ p[Len(p)] = "/"

\* what the operating system finds at path p
Lookup(f, p) ==
    LET key == IF HasTrailingSlash(p) THEN SubSeq(p, 1, Len(p) - 1) ELSE p
        kind == IF key \in DOMAIN f THEN f[key] ELSE "none"
    IN IF HasTrailingSlash(p) /\ kind = "file" THEN "none" ELSE kind

\* fs.existsSync
ExistsSync(f, p) == Lookup(f, p) # "none"

\* fs.statSync(p).isFile(); statSync throws when nothing is at p
StatThrows(f, p) == Lookup(f, p) = "none"
IsFile(f, p) == Lookup(f, p) = "file"

----------------------------------------------------------------------------
(* The server *)

OctetStream == "application/octet-stream"

MIME_TYPES(ext) ==
    CASE ext = <<".", "html">> -> "text/html"
      [] ext = <<".", "css">> -> "text/css"
      [] ext = <<".", "js">> -> "application/javascript"
      [] ext = <<".", "png">> -> "image/png"
      [] ext = <<".", "jpg">> -> "image/jpeg"
      [] ext = <<".", "jpeg">> -> "image/jpeg"
      [] ext = <<".", "svg">> -> "image/svg+xml"
      [] ext = <<".", "json">> -> "application/json"
      [] OTHER -> "undefined"

\* MIME_TYPES[ext] || 'application/octet-stream'
ContentTypeOf(filePath) ==
    LET ext == ToLowerCase(ExtName(filePath))
    IN IF MIME_TYPES(ext) = "undefined" THEN OctetStream ELSE MIME_TYPES(ext)

NotFoundBody == <<"<h1>404 Not Found</h1>">>

IdleReq ==
    [pc |-> "idle", url |-> <<>>, path |-> <<>>, ctype |-> "",
     status |-> 0, body |-> <<>>]

\* serveFile up to the call of fs.readFile: the read is pending
ServeFile(rec, filePath) ==
    [rec EXCEPT !.pc = "reading", !.path = filePath,
                !.ctype = ContentTypeOf(filePath)]

RespondNotFound(rec) ==
    [rec EXCEPT !.pc = "done", !.status = 404, !.ctype = "text/html",
                !.body = NotFoundBody]

\* only '/' is the root path
IsRootPathSlashOnly(urlPath) == urlPath = <<"/">>

IsRootPath(urlPath) == urlPath = <<"/">> \/ urlPath = <<>>

IndexFile == PathJoin(ROOT, <<"index", ".", "html">>)

RequestPath(urlPath) ==
    IF StartsWith(urlPath, <<"/">>) THEN Tail(urlPath) ELSE urlPath

\* the path is used as it is
InferExtensionNever(filePath) == filePath

\* Append .html only if no file extension is present
InferExtension(filePath) ==
    IF ExtName(filePath) = <<>> THEN filePath \o <<".", "html">> ELSE filePath

\* handleRequest from a decoded urlPath up to fs.existsSync
Resolve(f, rec, urlPath) ==
    LET requestPath == RequestPath(urlPath)
    IN IF IsRootPath(urlPath) THEN ServeFile(rec, IndexFile)
       ELSE IF StartsWith(requestPath, <<"posts", "/">>)
            THEN ServeFile(rec, InferExtension(PathJoin(ROOT, requestPath)))
       ELSE IF EndsWith(requestPath, <<".", "html">>)
            THEN ServeFile(rec, PathJoin(ROOT, requestPath))
       ELSE LET assetPath == PathJoin(ROOT, requestPath)
            IN IF ExistsSync(f, assetPath)
               THEN [rec EXCEPT !.pc = "stat", !.path = assetPath]
               ELSE RespondNotFound([rec EXCEPT !.path = assetPath])

\* handlers run to completion: no other callback runs inside handleRequest
NoHandlerRunning == \A r \in DOMAIN req : req[r].pc # "stat"

Up == crash = "none"

\* handleRequest on request URL u, up to its first filesystem call; a URIError
\* thrown by decodeURI leaves the handler and the request is never answered
HandleResult(f, u) ==
    LET rec == [IdleReq EXCEPT !.url = u]
        raw == StripQuery(u)
    IN IF ~CanDecode(raw)
       THEN [rec EXCEPT !.pc = "aborted"]
       ELSE Resolve(f, rec, DecodeURI(raw))

Handle(r, u) ==
    /\ req' = [req EXCEPT ![r] = HandleResult(fs, u)]
    /\ crash' = IF HandleResult(fs, u).pc = "aborted" THEN "URIError" ELSE crash

\* a request arrives on connection r
HandleRequest(r) ==
    /\ Up
    /\ NoHandlerRunning
    /\ req[r].pc = "idle"
    /\ \E u \in Urls(clients) : Handle(r, u)
    /\ UNCHANGED <<clients, fs, browserVars>>

\* handleRequest continues after existsSync returned true: statSync, isFile
HandleStat(r) ==
    /\ Up
    /\ req[r].pc = "stat"
    /\ IF StatThrows(fs, req[r].path)
       THEN /\ crash' = "ENOENT"
            /\ req' = [req EXCEPT ![r].pc = "aborted"]
       ELSE /\ crash' = crash
            /\ req' = [req EXCEPT ![r] =
                          IF IsFile(fs, req[r].path)
                          THEN ServeFile(req[r], req[r].path)
                          ELSE RespondNotFound(req[r])]
    /\ UNCHANGED <<clients, fs, browserVars>>

\* the callback of fs.readFile
ReadFileCallback(r) ==
    /\ Up
    /\ NoHandlerRunning
    /\ req[r].pc = "reading"
    /\ req' = [req EXCEPT ![r] =
                  IF IsFile(fs, req[r].path)
                  THEN [req[r] EXCEPT !.pc = "done", !.status = 200,
                                      !.body = req[r].path]
                  ELSE RespondNotFound(req[r])]
    /\ UNCHANGED <<clients, fs, crash, browserVars>>

\* the response has been sent; the connection takes the next request
NextRequest(r) ==
    /\ Up
    /\ req[r].pc = "done"
    /\ req' = [req EXCEPT ![r] = IdleReq]
    /\ UNCHANGED <<clients, fs, crash, browserVars>>

(* Other processes acting on the filesystem *)

Unlink(p) ==
    /\ fs[p] # "none"
    /\ fs' = [fs EXCEPT ![p] = "none"]
    /\ UNCHANGED <<clients, req, crash, browserVars>>

Mkdir(p) ==
    /\ fs[p] = "none"
    /\ fs' = [fs EXCEPT ![p] = "dir"]
    /\ UNCHANGED <<clients, req, crash, browserVars>>

WriteFile(p) ==
    /\ fs[p] = "none"
    /\ fs' = [fs EXCEPT ![p] = "file"]
    /\ UNCHANGED <<clients, req, crash, browserVars>>

----------------------------------------------------------------------------
(* The promotional popup of the front-end scripts *)

NoPage ==
    [script |-> "none", popup |-> FALSE, closeBtn |-> FALSE,
     show |-> FALSE, timer |-> FALSE]

\* the DOMContentLoaded handler of a freshly loaded document
DOMContentLoaded(script, hasPopup, hasClose) ==
    /\ loads < MaxLoads
    /\ loads' = loads + 1
    /\ page' = [script |-> script, popup |-> hasPopup,
                closeBtn |-> hasPopup /\ hasClose, show |-> FALSE,
                timer |-> hasPopup /\ ~popupShown]
    /\ UNCHANGED <<clients, fs, req, crash, popupShown, shows>>

\* the setTimeout callback: popup.classList.add('show')
PopupDelayExpires ==
    /\ page.timer
    /\ page' = [page EXCEPT !.timer = FALSE, !.show = TRUE]
    /\ shows' = shows + 1
    /\ UNCHANGED <<clients, fs, req, crash, popupShown, loads>>

closePopup ==
    /\ page' = [page EXCEPT !.show = FALSE]
    /\ popupShown' = TRUE
    /\ UNCHANGED <<clients, fs, req, crash, loads, shows>>

\* click on .popup-close
ClickClose ==
    /\ page.closeBtn
    /\ closePopup

\* keydown with e.key === 'Escape' (src/script.js only)
PressEscape ==
    /\ page.script = "root"
    /\ page.popup
    /\ closePopup

----------------------------------------------------------------------------
(* Specifications *)

InitServer(population, connections) ==
    /\ clients = population
    /\ fs = FsLayout
    /\ req = [r \in 1..connections |-> IdleReq]
    /\ crash = "none"
    /\ popupShown = FALSE
    /\ page = NoPage
    /\ loads = 0
    /\ shows = 0

\* one connection, every URL over the path alphabet, a quiescent filesystem
Init == InitServer("path", 1)

Next ==
    \/ \E r \in DOMAIN req : HandleRequest(r)
    \/ \E r \in DOMAIN req : HandleStat(r)
    \/ \E r \in DOMAIN req : ReadFileCallback(r)
    \/ \E r \in DOMAIN req : NextRequest(r)

Spec == Init /\ [][Next]_vars

\* one connection, every URL over the query alphabet
InitQuery == InitServer("query", 1)
SpecQuery == InitQuery /\ [][Next]_vars

\* one connection, every URL over the content-type alphabet
InitMime == InitServer("mime", 1)
SpecMime == InitMime /\ [][Next]_vars

\* several connections while other processes change the filesystem
InitRace == InitServer("race", MaxInFlight)

NextRace ==
    \/ Next
    \/ \E p \in Volatile : Unlink(p)
    \/ \E p \in Volatile : Mkdir(p)
    \/ \E p \in Volatile : WriteFile(p)

SpecRace == InitRace /\ [][NextRace]_vars

\* one browser session
InitPopup == InitServer("none", 0)

NextPopup ==
    \/ \E script \in {"public", "root"}, hasPopup, hasClose \in BOOLEAN :
            DOMContentLoaded(script, hasPopup, hasClose)
    \/ PopupDelayExpires
    \/ ClickClose
    \/ PressEscape

SpecPopup == InitPopup /\ [][NextPopup]_vars

----------------------------------------------------------------------------
(* Vocabulary of the properties *)

Conns == DOMAIN req

\* the request on connection r has been handled at least up to its first
\* filesystem call
Handled(r) == req[r].pc \in {"stat", "reading", "done"}

SiteIndex == <<"/", "w", "/", "index", ".", "html">>

InsideRoot(p) == StartsWith(p, <<"/", "w", "/">>)

\* the last segment of an absolute path, a trailing slash ignored
LastSegment(p) ==
    LET q == IF Len(p) > 0 /\ p[Len(p)] = "/" THEN SubSeq(p, 1, Len(p) - 1) ELSE p
        slashes == {i \in 1..Len(q) : q[i] = "/"}
        last == IF slashes = {} THEN 0
                ELSE CHOOSE i \in slashes : \A j \in slashes : j <= i
    IN SubSeq(q, last + 1, Len(q))

\* the decoded request path of a handled request, without its leading slash
RequestPathOf(r) == RequestPath(DecodeURI(StripQuery(req[r].url)))

UnderPosts(r) == StartsWith(RequestPathOf(r), <<"posts", "/">>)

\* the request path joined to the site root and normalized
JoinedOf(r) == PathJoin(ROOT, RequestPathOf(r))

\* '.html' was appended to the joined path of the request
HtmlAppended(r) == req[r].path = JoinedOf(r) \o <<".", "html">>

----------------------------------------------------------------------------
(* Properties *)

\* C1: root containment.  Every path handed to serveFile, and every file a
\* 200 response was read from, is a descendant of ROOT; a request path that
\* normalizes to a place outside ROOT is never answered 200.
C1_RootContainment ==
    \A r \in Conns :
        (req[r].pc = "reading" \/ req[r].status = 200) => InsideRoot(req[r].path)

\* C2: no crash on request content.  handleRequest throws on no request URL:
\* no request is left unanswered by an exception and the process stays up.
C2_NoThrowOnRequest ==
    /\ crash # "URIError"
    /\ \A r \in Conns : req[r].pc # "aborted"

\* C3: filesystem failures collapse to 404 under any interleaving.  A target
\* that is missing, a directory, or removed or replaced between existsSync,
\* statSync and readFile never lets an exception escape, and the request it
\* fails is answered 404.
C3_FsFailuresAre404 ==
    /\ crash # "ENOENT"
    /\ \A r \in Conns :
          (req[r].pc = "done" /\ req[r].status # 200) => req[r].status = 404

\* C4 as stated: '.html' is appended only to requests under 'posts/' and only
\* when the trailing segment contains no '.' at all.
C4_NoDotAnywhere ==
    \A r \in Conns :
        (Handled(r) /\ HtmlAppended(r)) =>
            /\ UnderPosts(r)
            /\ \A i \in 1..Len(LastSegment(JoinedOf(r))) :
                  LastSegment(JoinedOf(r))[i] # "."

\* no '.' after the first character of the segment
NoDotAfterFirst(seg) == \A i \in 2..Len(seg) : seg[i] # "."

\* C4 (amended): '.html' is appended exactly to the requests under 'posts/'
\* whose normalized path has a last segment with no '.' after its first
\* character; a leading dot alone ('.hidden') is not an extension, every
\* other dot is, and no request outside 'posts/' gets '.html' appended.
C4_ExtensionInference ==
    \A r \in Conns :
        Handled(r) =>
            (HtmlAppended(r) <=>
                (UnderPosts(r) /\ NoDotAfterFirst(LastSegment(JoinedOf(r)))))

\* a posts request with an extension was served from the literal file
C4_Witness ==
    \E r \in Conns :
        /\ req[r].pc = "done"
        /\ req[r].status = 200
        /\ req[r].url = <<"/", "posts", "/", "a", ".", "a">>
        /\ req[r].path = <<"/", "w", "/", "posts", "/", "a", ".", "a">>

\* characters of an article name: no '/', no '.', no '?', no escape
NameTokens == {"a", "posts", "html"}

IsArticleName(n) == n # <<>> /\ \A i \in 1..Len(n) : n[i] \in NameTokens

\* the article name n when url is '/posts/n' or '/posts/n.html', else <<>>
ArticleOf(url) ==
    IF ~StartsWith(url, <<"/", "posts", "/">>) THEN <<>>
    ELSE LET rest == SubSeq(url, 4, Len(url))
             n == IF EndsWith(rest, <<".", "html">>)
                  THEN SubSeq(rest, 1, Len(rest) - 2)
                  ELSE rest
         IN IF IsArticleName(n) THEN n ELSE <<>>

ArticleFile(n) == <<"/", "w", "/", "posts", "/">> \o n \o <<".", "html">>

\* C5: for an article name n without extension, '/posts/n' and
\* '/posts/n.html' resolve to the same file posts/n.html and have the same
\* outcome: 200 with that file as text/html when it is a regular file, else 404.
C5_SameAsExplicitHtml ==
    \A r \in Conns :
        (Handled(r) /\ ArticleOf(req[r].url) # <<>>) =>
            LET file == ArticleFile(ArticleOf(req[r].url))
            IN /\ req[r].pc = "reading" \/ req[r].pc = "done"
               /\ req[r].path = file
               /\ req[r].pc = "reading" => req[r].ctype = "text/html"
               /\ req[r].pc = "done" =>
                     IF file \in DOMAIN fs /\ fs[file] = "file"
                     THEN /\ req[r].status = 200
                          /\ req[r].body = file
                          /\ req[r].ctype = "text/html"
                     ELSE req[r].status = 404

\* '/posts/a' was answered from posts/a.html
C5_Witness ==
    \E r \in Conns :
        /\ req[r].pc = "done"
        /\ req[r].url = <<"/", "posts", "/", "a">>
        /\ req[r].status = 200
        /\ req[r].body = <<"/", "w", "/", "posts", "/", "a", ".", "html">>

\* the response that ends a request handled up to rec, the filesystem at rest
FinalOf(rec) ==
    IF rec.pc \in {"stat", "reading"}
    THEN IF IsFile(fs, rec.path)
         THEN [status |-> 200, ctype |-> ContentTypeOf(rec.path), body |-> rec.path]
         ELSE [status |-> 404, ctype |-> "text/html", body |-> NotFoundBody]
    ELSE [status |-> rec.status, ctype |-> rec.ctype, body |-> rec.body]

\* the request on connection r resolves and ends as the request for p alone
SameOutcomeAs(r, p) ==
    LET alone == HandleResult(fs, p)
    IN /\ req[r].pc = "aborted" <=> alone.pc = "aborted"
       /\ req[r].path = alone.path
       /\ FinalOf(req[r]) = FinalOf(alone)

\* the request was cut at position i into a path and a suffix
CutAt(r, i) == SubSeq(req[r].url, 1, i - 1)

\* C6 as stated: a suffix beginning with '?' or '#' never changes the file
\* or the outcome of a request.
C6_QueryAndFragmentStripped ==
    \A r \in Conns :
        req[r].pc # "idle" =>
            \A i \in 1..Len(req[r].url) :
                req[r].url[i] \in {"?", "#"} => SameOutcomeAs(r, CutAt(r, i))

\* C6 (amended): a suffix beginning with '?' never changes the file or the
\* outcome of a request; a '#' is an ordinary character of the path.
C6_QueryStripped ==
    \A r \in Conns :
        req[r].pc # "idle" =>
            \A i \in 1..Len(req[r].url) :
                req[r].url[i] = "?" => SameOutcomeAs(r, CutAt(r, i))

\* a page requested with a non-empty query string was served
C6_Witness ==
    \E r \in Conns :
        /\ req[r].pc = "done"
        /\ req[r].status = 200
        /\ req[r].url = <<"/", "a", "?", "a", "/">>
        /\ req[r].body = <<"/", "w", "/", "a">>

\* the media type of a file name, read off the characters after the last '.'
\* of its last segment (a leading '.' starts no extension)
ExpectedType(file) ==
    LET seg == LastSegment(file)
        dots == {i \in 2..Len(seg) : seg[i] = "."}
        d == CHOOSE i \in dots : \A j \in dots : j <= i
        letters == SubSeq(seg, d + 1, Len(seg))
    IN IF dots = {} \/ Len(letters) # 1 THEN "application/octet-stream"
       ELSE CASE letters[1] \in {"html", "HTML"} -> "text/html"
              [] letters[1] = "css" -> "text/css"
              [] letters[1] = "js" -> "application/javascript"
              [] letters[1] \in {"png", "PNG"} -> "image/png"
              [] letters[1] \in {"jpg", "jpeg"} -> "image/jpeg"
              [] letters[1] = "svg" -> "image/svg+xml"
              [] letters[1] = "json" -> "application/json"
              [] OTHER -> "application/octet-stream"

\* C7: every 200 response carries the type MIME_TYPES gives the lower-cased
\* extension of the file read, or application/octet-stream when there is no
\* extension or none in the table, and the file as body; every 404 response
\* carries text/html and the fixed body.
C7_ContentType ==
    \A r \in Conns :
        req[r].pc = "done" =>
            /\ req[r].status \in {200, 404}
            /\ req[r].status = 200 =>
                  /\ req[r].body = req[r].path
                  /\ req[r].ctype = ExpectedType(req[r].body)
            /\ req[r].status = 404 =>
                  /\ req[r].ctype = "text/html"
                  /\ req[r].body = <<"<h1>404 Not Found</h1>">>

\* a file with an upper-case extension was served with the type of '.html'
C7_Witness ==
    \E r \in Conns :
        /\ req[r].pc = "done"
        /\ req[r].status = 200
        /\ req[r].url = <<"/", "a", ".", "HTML">>
        /\ req[r].ctype = "text/html"

\* the request URL is '/' or '' once its query string is cut off
IsRootUrl(url) ==
    \/ url = <<>>
    \/ url = <<"/">>
    \/ url[1] = "?"
    \/ (Len(url) >= 2 /\ url[1] = "/" /\ url[2] = "?")

\* C8: a request whose path is '/' or '' is answered from ROOT/index.html and
\* from no other file.
C8_RootIsIndex ==
    \A r \in Conns :
        (req[r].pc # "idle" /\ IsRootUrl(req[r].url)) =>
            /\ req[r].pc \in {"reading", "done"}
            /\ req[r].path = SiteIndex
            /\ req[r].pc = "done" =>
                  /\ req[r].status = 200
                  /\ req[r].body = SiteIndex
                  /\ req[r].ctype = "text/html"

\* the empty path was answered with the index document
C8_Witness ==
    \E r \in Conns :
        /\ req[r].pc = "done"
        /\ req[r].url = <<"?", "/", "a">>
        /\ req[r].status = 200
        /\ req[r].body = SiteIndex

\* C9: requests are independent.  A request whose read is pending is still
\* going to be answered whatever the other requests are and do: no other
\* request takes its response away.
C9_Independent ==
    \A r \in Conns : req[r].pc = "reading" => Up

\* C10: the popup is given the 'show' class at most once per session and is
\* never shown after it was dismissed.
C10_OncePerSession ==
    /\ shows <= 1
    /\ popupShown => ~page.show

====
